---- MODULE Spec2Model ----
(***************************************************************************)
(* The mountain-info handler: validate trailName, resolve coordinates,     *)
(* fan out to the weather, air-quality and sun-time providers, join with   *)
(* Promise.allSettled and shape the HTTP response.                          *)
(*                                                                         *)
(* The repository holds two revisions of the handler:                      *)
(*   "proxy"   src/src/modules/mountain-info/mountain-info.handler.ts      *)
(*             (APIGatewayProxyHandler with its own try/catch)             *)
(*   "gateway" src/unnamed/part_000 (wrapped by createGatewayHandler)      *)
(* A deployment runs one of them; impl records which.                      *)
(*                                                                         *)
(* JavaScript runs each continuation to completion, so every action below  *)
(* is one synchronous stretch of the handler between two awaits, except    *)
(* that the three provider calls of the array literal are issued one after *)
(* the other: an async provider may settle its promise before the next one *)
(* is called.                                                              *)
(***************************************************************************)
EXTENDS Integers, Sequences, FiniteSets, TLC

\* ---------------------------------------------------------------- bounds
\* DTO values each provider can return.
MaxDto == 1

\* ------------------------------------------------------------- constants
OK == 200
BAD_REQUEST == 400
INTERNAL_SERVER_ERROR == 500

Req == {"r1", "r2"}
Impl == {"proxy", "gateway"}
Providers == <<"weather", "airQuality", "sunTimes">>
ProviderSet == {Providers[i] : i \in 1..3}

Undefined == "undefined"
TrailNames == {"bukhansan"}
Coords == {[lat |-> 37, lng |-> 126]}
NoCoords == [lat |-> 0, lng |-> 0]

\* API Gateway events: queryStringParameters is null or an object whose
\* trailName is absent, empty or a trail name.
Events ==
  {[params |-> "null", trailName |-> Undefined]} \cup
  {[params |-> "object", trailName |-> t] : t \in {Undefined, ""} \cup TrailNames}

\* ------------------------------------------------------- provider values
Dto(p, i) == [kind |-> "dto", of |-> p, n |-> i]
Null == [kind |-> "null", of |-> "", n |-> 0]
Dtos(p) == {Dto(p, i) : i \in 1..MaxDto}

\* A rejection reason: an Error object with a message, or a thrown string.
Reasons ==
  {[isError |-> TRUE, msg |-> "ETIMEDOUT"], [isError |-> FALSE, msg |-> "upstream 503"]}
NoReason == [isError |-> FALSE, msg |-> ""]

\* String(reason): "Error: <message>" for an Error, the string itself otherwise.
StringOf(reason) == [named |-> reason.isError, msg |-> reason.msg]
\* reason.message
MessageOf(reason) == [named |-> FALSE, msg |-> reason.msg]

IdleCall == [status |-> "idle", args |-> NoCoords, value |-> Null, reason |-> NoReason]
PendingCall(c) == [status |-> "pending", args |-> c, value |-> Null, reason |-> NoReason]
Fulfilled(call, v) == [call EXCEPT !.status = "fulfilled", !.value = v]
Rejected(call, e) == [call EXCEPT !.status = "rejected", !.reason = e]

\* ------------------------------------------------------------- responses
EmptyBody == [keys |-> <<>>, message |-> "", errors |-> <<>>, fields |-> <<>>, data |-> <<>>]
NoResponse == [statusCode |-> 0, body |-> EmptyBody]

BadRequestResponse ==
  [statusCode |-> BAD_REQUEST,
   body |-> [EmptyBody EXCEPT !.keys = <<"message">>, !.message = "trailName is required."]]

InternalErrorResponse ==
  [statusCode |-> INTERNAL_SERVER_ERROR,
   body |-> [EmptyBody EXCEPT !.keys = <<"message">>, !.message = "Internal Server Error"]]

VARIABLES
  impl,     \* which revision of the handler is deployed
  pc,       \* per invocation: where the handler is suspended
  event,    \* per invocation: the request it was invoked with
  coord,    \* per invocation: the getCoordinatesByTrailName promise
  call,     \* per invocation: the three provider promises
  order,    \* per invocation: providers in the order their promises settled
  errors,   \* per invocation: the handler's local errors array
  resp      \* per invocation: the response returned to the caller

vars == <<impl, pc, event, coord, call, order, errors, resp>>

NoEvent == [params |-> "none", trailName |-> Undefined]
NoCoord == [status |-> "idle", at |-> NoCoords]

\* ------------------------------------------------------------ validation
\* JavaScript truthiness of trailName: undefined and "" are falsy.
Falsy(v) == v \in {Undefined, ""}

\* proxy: !queryStringParameters?.trailName
ProxyValidateNoChain(ev) ==
  IF ev.params = "null" THEN "throw"
  ELSE IF Falsy(ev.trailName) THEN "missing" ELSE "ok"

ProxyValidate(ev) ==
  IF ev.params = "null" \/ Falsy(ev.trailName) THEN "missing" ELSE "ok"

\* createGatewayHandler hands the handler req.query; a request without query
\* parameters reaches it as an empty object.
ReqQuery(ev) ==
  IF ev.params = "null" THEN [params |-> "object", trailName |-> Undefined] ELSE ev

\* gateway: !queryStringParameters.trailName (a property read of null throws)
GatewayValidate(q) ==
  IF q.params = "null" THEN "throw"
  ELSE IF Falsy(q.trailName) THEN "missing" ELSE "ok"

Validate(i, ev) ==
  IF i = "proxy" THEN ProxyValidate(ev) ELSE GatewayValidate(ReqQuery(ev))

\* What the caller receives when the handler body throws: the proxy handler's
\* own catch block; for the gateway handler, createGatewayHandler's boundary.
ProxyCatch == InternalErrorResponse
GatewayBoundary == InternalErrorResponse
OnThrow(i) == IF i = "proxy" THEN ProxyCatch ELSE GatewayBoundary

\* ------------------------------------------------------------------ join
Settled(c) == c.status \in {"fulfilled", "rejected"}

\* Promise.all would be ready on the first rejection.
AllOrFirstRejected(calls) ==
  \/ \A p \in ProviderSet : calls[p].status = "fulfilled"
  \/ \E p \in ProviderSet : calls[p].status = "rejected"

\* A join that only resumes when every promise fulfils.
AllFulfilled(calls) == \A p \in ProviderSet : calls[p].status = "fulfilled"

\* Promise.allSettled resolves once every input promise has settled.
AllSettledReady(calls) == \A p \in ProviderSet : Settled(calls[p])

\* Results collected in completion order.
ResultsInSettleOrder(calls, ord) ==
  [i \in 1..3 |-> IF i <= Len(ord) THEN calls[ord[i]] ELSE calls[Providers[i]]]

\* Promise.allSettled: result i is the outcome of input promise i.
AllSettledResults(calls, ord) == [i \in 1..3 |-> calls[Providers[i]]]

\* ------------------------------------------------------- error messages
ProxyLabel(i) == <<"Weather", "Air Quality", "Sun Times">>[i]
GatewayLabel(i) == Providers[i]
Label(im, i) == IF im = "proxy" THEN ProxyLabel(i) ELSE GatewayLabel(i)

\* proxy: `${label} API Error: ${result.reason}`
ProxyErrorEntry(i, result) == [api |-> ProxyLabel(i), text |-> StringOf(result.reason)]

\* gateway: reason instanceof Error ? reason.message : String(reason)
GatewayErrorEntry(i, result) ==
  [api |-> GatewayLabel(i),
   text |-> IF result.reason.isError THEN MessageOf(result.reason) ELSE StringOf(result.reason)]

ErrorEntry(im, i, result) ==
  IF im = "proxy" THEN ProxyErrorEntry(i, result) ELSE GatewayErrorEntry(i, result)

RECURSIVE CollectFrom(_, _, _)
CollectFrom(im, results, i) ==
  IF i > 3 THEN <<>>
  ELSE (IF results[i].status = "rejected" THEN <<ErrorEntry(im, i, results[i])>> ELSE <<>>)
       \o CollectFrom(im, results, i + 1)

\* An errors array that reports only the first failure.
CollectFirstError(im, results) ==
  IF CollectFrom(im, results, 1) = <<>> THEN <<>> ELSE <<Head(CollectFrom(im, results, 1))>>

\* The error entries pushed for one set of results, in index order.
CollectErrors(im, results) == CollectFrom(im, results, 1)

\* An errors array declared at module scope: every invocation pushes into,
\* and reads, the same array.
PushShared(errs, r, entries) == [q \in Req |-> errs[q] \o entries]

\* errors is a local of the invocation: const errors = []; errors.push(...)
PushErrors(errs, r, entries) == [errs EXCEPT ![r] = @ \o entries]

\* ------------------------------------------------------- response shape
\* The three result fields, weather / airQuality / sunTimes, in that order.
ResultFields(results) ==
  [i \in 1..3 |->
    [key |-> Providers[i],
     val |-> IF results[i].status = "fulfilled" THEN results[i].value ELSE Null]]

ProxyRespond(results, errs) ==
  IF Len(errs) > 0
    THEN [statusCode |-> INTERNAL_SERVER_ERROR,
          body |-> [EmptyBody EXCEPT !.keys = <<"message", "errors">>,
                                     !.message = "Errors occurred", !.errors = errs]]
    ELSE [statusCode |-> OK,
          body |-> [EmptyBody EXCEPT !.keys = Providers, !.fields = ResultFields(results)]]

\* A 200 that is sent whenever the weather call succeeded.
RespondOkIfWeather(results, errs) ==
  IF results[1].status = "fulfilled"
    THEN [statusCode |-> OK,
          body |-> [EmptyBody EXCEPT !.keys = Providers, !.fields = ResultFields(results)]]
    ELSE [statusCode |-> INTERNAL_SERVER_ERROR,
          body |-> [EmptyBody EXCEPT !.keys = <<"message", "errors", "data">>,
                                     !.message = "Errors occurred", !.errors = errs,
                                     !.data = ResultFields(results)]]

GatewayRespond(results, errs) ==
  IF Len(errs) > 0
    THEN [statusCode |-> INTERNAL_SERVER_ERROR,
          body |-> [EmptyBody EXCEPT !.keys = <<"message", "errors", "data">>,
                                     !.message = "Errors occurred", !.errors = errs,
                                     !.data = ResultFields(results)]]
    ELSE [statusCode |-> OK,
          body |-> [EmptyBody EXCEPT !.keys = Providers, !.fields = ResultFields(results)]]

Respond(im, results, errs) ==
  IF im = "proxy" THEN ProxyRespond(results, errs) ELSE GatewayRespond(results, errs)

\* --------------------------------------------------------------- fan-out
\* Provider i is the next call of the array literal.
NextCall(calls, i) ==
  /\ calls[Providers[i]].status = "idle"
  /\ \A j \in 1..(i - 1) : calls[Providers[j]].status # "idle"

\* Serial dispatch: each call awaited before the next is made.
CanIssueSerial(calls, i) ==
  /\ NextCall(calls, i)
  /\ \A j \in 1..(i - 1) : Settled(calls[Providers[j]])

\* The three calls are made back to back, before the await.
CanIssue(calls, i) == NextCall(calls, i)

\* Provider calls started as soon as the handler is invoked with a trail name.
FanOutEarly(p, c) == p \in {"resolving", "fanout"}

\* The fan-out starts only after the coordinates have been awaited.
FanOutOpen(p, c) == p = "fanout" /\ c.status = "ok"

\* ---------------------------------------------------------------- Init
Init ==
  /\ impl \in Impl
  /\ pc = [r \in Req |-> "idle"]
  /\ event = [r \in Req |-> NoEvent]
  /\ coord = [r \in Req |-> NoCoord]
  /\ call = [r \in Req |-> [p \in ProviderSet |-> IdleCall]]
  /\ order = [r \in Req |-> <<>>]
  /\ errors = [r \in Req |-> <<>>]
  /\ resp = [r \in Req |-> NoResponse]

\* -------------------------------------------------------------- actions
\* The handler is invoked: validation, then either a 400, a thrown error, or
\* the call of getCoordinatesByTrailName and the first await.
Invoke(r) ==
  /\ pc[r] = "idle"
  /\ \E ev \in Events :
       /\ event' = [event EXCEPT ![r] = ev]
       /\ LET v == Validate(impl, ev) IN
          IF v = "ok"
            THEN /\ pc' = [pc EXCEPT ![r] = "resolving"]
                 /\ coord' = [coord EXCEPT ![r] = [status |-> "pending", at |-> NoCoords]]
                 /\ resp' = resp
            ELSE /\ pc' = [pc EXCEPT ![r] = "done"]
                 /\ coord' = coord
                 /\ resp' = [resp EXCEPT ![r] =
                              IF v = "missing" THEN BadRequestResponse ELSE OnThrow(impl)]
  /\ UNCHANGED <<impl, call, order, errors>>

\* getCoordinatesByTrailName resolves: the handler resumes with { lat, lng }.
ResolveOk(r) ==
  /\ pc[r] = "resolving"
  /\ coord[r].status = "pending"
  /\ \E c \in Coords : coord' = [coord EXCEPT ![r] = [status |-> "ok", at |-> c]]
  /\ pc' = [pc EXCEPT ![r] = "fanout"]
  /\ UNCHANGED <<impl, event, call, order, errors, resp>>

\* getCoordinatesByTrailName rejects: the await throws out of the handler body.
ResolveFail(r) ==
  /\ pc[r] = "resolving"
  /\ coord[r].status = "pending"
  /\ coord' = [coord EXCEPT ![r] = [status |-> "failed", at |-> NoCoords]]
  /\ pc' = [pc EXCEPT ![r] = "done"]
  /\ resp' = [resp EXCEPT ![r] = OnThrow(impl)]
  /\ UNCHANGED <<impl, event, call, order, errors>>

\* The next provider call of the array literal is made with (lat, lng).
Issue(r) ==
  /\ FanOutOpen(pc[r], coord[r])
  /\ \E i \in 1..3 :
       /\ CanIssue(call[r], i)
       /\ call' = [call EXCEPT ![r][Providers[i]] = PendingCall(coord[r].at)]
       /\ pc' = [pc EXCEPT ![r] = IF i = 3 THEN "join" ELSE "fanout"]
  /\ UNCHANGED <<impl, event, coord, order, errors, resp>>

\* A provider promise fulfils with a DTO.
Fulfil(r) ==
  /\ \E p \in ProviderSet :
       /\ call[r][p].status = "pending"
       /\ \E v \in Dtos(p) : call' = [call EXCEPT ![r][p] = Fulfilled(@, v)]
       /\ order' = [order EXCEPT ![r] = Append(@, p)]
  /\ UNCHANGED <<impl, pc, event, coord, errors, resp>>

\* A provider promise rejects with a reason.
Reject(r) ==
  /\ \E p \in ProviderSet :
       /\ call[r][p].status = "pending"
       /\ \E e \in Reasons : call' = [call EXCEPT ![r][p] = Rejected(@, e)]
       /\ order' = [order EXCEPT ![r] = Append(@, p)]
  /\ UNCHANGED <<impl, pc, event, coord, errors, resp>>

\* The await of Promise.allSettled resumes: errors are collected and the
\* response is built and returned, all in one synchronous stretch.
Join(r) ==
  /\ pc[r] = "join"
  /\ AllSettledReady(call[r])
  /\ LET results == AllSettledResults(call[r], order[r])
         errs == PushErrors(errors, r, CollectErrors(impl, results))
     IN /\ errors' = errs
        /\ resp' = [resp EXCEPT ![r] = Respond(impl, results, errs[r])]
  /\ pc' = [pc EXCEPT ![r] = "done"]
  /\ UNCHANGED <<impl, event, coord, call, order>>

Step(r) ==
  \/ Invoke(r)
  \/ ResolveOk(r)
  \/ ResolveFail(r)
  \/ Issue(r)
  \/ Fulfil(r)
  \/ Reject(r)
  \/ Join(r)

\* One invocation.
Next == Step("r1")

\* Invocations in flight together.
NextMulti == \E r \in Req : Step(r)

Spec == Init /\ [][Next]_vars

SpecMulti == Init /\ [][NextMulti]_vars

\* The event loop runs every ready continuation, and (the hypothesis of the
\* termination claim) every pending promise settles.
Fairness ==
  /\ WF_vars(ResolveOk("r1") \/ ResolveFail("r1"))
  /\ WF_vars(Issue("r1"))
  /\ WF_vars(Fulfil("r1") \/ Reject("r1"))
  /\ WF_vars(Join("r1"))

LiveSpec == Spec /\ Fairness

TypeOK ==
  /\ impl \in Impl
  /\ \A r \in Req :
       /\ pc[r] \in {"idle", "resolving", "fanout", "join", "done"}
       /\ resp[r].statusCode \in {0, OK, BAD_REQUEST, INTERNAL_SERVER_ERROR}

\* ------------------------------------------------------ claim vocabulary
Invoked(r) == event[r] # NoEvent
MissingTrailName(r) == Invoked(r) /\ (event[r].params = "null" \/ event[r].trailName \in {Undefined, ""})
Returned(r) == resp[r] # NoResponse
NoCallMade(r) == \A p \in ProviderSet : call[r][p].status = "idle"
FannedOut(r) == \A p \in ProviderSet : call[r][p].status # "idle"
Failed(r) == {p \in ProviderSet : call[r][p].status = "rejected"}
Succeeded(r) == {p \in ProviderSet : call[r][p].status = "fulfilled"}
Finished(r) == pc[r] = "done" /\ FannedOut(r)

\* C1: a request whose trailName is missing or empty (or that has no query
\* parameters at all) is answered 400 {message: 'trailName is required.'},
\* and neither the coordinate resolver nor any provider is called.
C1_MissingTrailNameIs400 ==
  \A r \in Req :
    MissingTrailName(r) =>
      /\ resp[r].statusCode = 400
      /\ resp[r].body.keys = <<"message">>
      /\ resp[r].body.message = "trailName is required."
      /\ coord[r].status = "idle"
      /\ NoCallMade(r)

C1_Witness ==
  /\ impl = "proxy"
  /\ event["r1"].params = "null"
  /\ resp["r1"].statusCode = 400

\* C2: whenever one or more providers fail, the response is 500 with body
\* {message: 'Errors occurred', errors, data}, data holding all three keys:
\* null for a failed provider, the returned value for one that succeeded.
C2_FailureBodyCarriesData ==
  \A r \in Req :
    (Finished(r) /\ Failed(r) # {}) =>
      /\ resp[r].statusCode = 500
      /\ resp[r].body.message = "Errors occurred"
      /\ resp[r].body.keys = <<"message", "errors", "data">>
      /\ Len(resp[r].body.data) = 3
      /\ \A i \in 1..3 :
           /\ resp[r].body.data[i].key = Providers[i]
           /\ resp[r].body.data[i].val =
                IF Providers[i] \in Failed(r) THEN Null ELSE call[r][Providers[i]].value

\* C3: when all three providers succeed the response is 200 and its body is
\* exactly the fields weather, airQuality, sunTimes, each the value its
\* provider returned; and a 200 is returned only when all three succeeded.
C3_AllSucceedIs200 ==
  \A r \in Req :
    /\ (Finished(r) /\ Succeeded(r) = ProviderSet) =>
         /\ resp[r].statusCode = 200
         /\ resp[r].body.keys = <<"weather", "airQuality", "sunTimes">>
         /\ resp[r].body.message = ""
         /\ resp[r].body.errors = <<>>
         /\ resp[r].body.data = <<>>
         /\ Len(resp[r].body.fields) = 3
         /\ \A i \in 1..3 :
              /\ resp[r].body.fields[i].key = Providers[i]
              /\ resp[r].body.fields[i].val = call[r][Providers[i]].value
              /\ resp[r].body.fields[i].val \in Dtos(Providers[i])
    /\ resp[r].statusCode = 200 => Succeeded(r) = ProviderSet

C3_Witness ==
  /\ Finished("r1")
  /\ Succeeded("r1") = ProviderSet
  /\ resp["r1"].statusCode = 200

\* C4: the errors list of the 500 response has exactly one entry per failed
\* provider and none for a provider that succeeded, and each entry names the
\* provider it reports.
C4_OneErrorPerFailedProvider ==
  \A r \in Req :
    (Finished(r) /\ Failed(r) # {}) =>
      LET errs == resp[r].body.errors IN
        /\ resp[r].statusCode = 500
        /\ Len(errs) = Cardinality(Failed(r))
        /\ \A i \in 1..3 :
             Cardinality({k \in 1..Len(errs) : errs[k].api = Label(impl, i)}) =
               IF Providers[i] \in Failed(r) THEN 1 ELSE 0

C4_Witness ==
  /\ Finished("r1")
  /\ Failed("r1") = ProviderSet
  /\ Len(resp["r1"].body.errors) = 3

\* C5: when coordinate resolution fails the handler returns 500 with the
\* generic body {message: 'Internal Server Error'} and issues no provider
\* call; no provider call is ever issued before the coordinates resolved.
C5_ResolutionFailureIsFatal ==
  \A r \in Req :
    /\ coord[r].status = "failed" =>
         /\ resp[r].statusCode = 500
         /\ resp[r].body.keys = <<"message">>
         /\ resp[r].body.message = "Internal Server Error"
         /\ resp[r].body.errors = <<>>
         /\ NoCallMade(r)
    /\ \A p \in ProviderSet : call[r][p].status # "idle" => coord[r].status = "ok"

C5_Witness ==
  /\ coord["r1"].status = "failed"
  /\ pc["r1"] = "done"
  /\ ~MissingTrailName("r1")

\* C6: the response is never produced while a provider call is pending: it
\* exists only once all three have settled, and a step that settles one call
\* (a failure included) leaves the other calls as they were.
C6_NoPendingAtResponse ==
  \A r \in Req :
    /\ Returned(r) => \A p \in ProviderSet : call[r][p].status # "pending"
    /\ (Returned(r) /\ coord[r].status = "ok") => Failed(r) \cup Succeeded(r) = ProviderSet

C6_SettleIsLocal ==
  \A r \in Req : \A p \in ProviderSet :
    (call[r][p].status = "pending" /\ call'[r][p] # call[r][p]) =>
      /\ call'[r][p].status \in {"fulfilled", "rejected"}
      /\ \A q \in ProviderSet \ {p} : call'[r][q] = call[r][q]
      /\ resp' = resp

C6_WaitsForAll == []C6_NoPendingAtResponse /\ [][C6_SettleIsLocal]_vars

C6_Witness ==
  /\ Returned("r1")
  /\ Len(order["r1"]) = 3
  /\ call["r1"][order["r1"][1]].status = "rejected"
  /\ call["r1"][order["r1"][2]].status = "fulfilled"
  /\ call["r1"][order["r1"][3]].status = "fulfilled"

\* C7: once the coordinates are resolved the handler can always make its
\* next provider call, whatever state the earlier calls are in, and it only
\* starts waiting when all three calls have been issued.
C7_IssueNeverWaits ==
  \A r \in Req :
    /\ pc[r] = "fanout" => ENABLED Issue(r)
    /\ pc[r] = "join" => FannedOut(r)

C7_Witness == \A p \in ProviderSet : call["r1"][p].status = "pending"

\* C8: two executions in which every provider has the same outcome return
\* the same status and body whatever order the providers settled in; result
\* keys and error entries are always in the order weather, airQuality,
\* sunTimes.
SameOutcomes(r, q) ==
  /\ event[r] = event[q]
  /\ coord[r] = coord[q]
  /\ call[r] = call[q]

InProviderOrder(r) ==
  LET b == resp[r].body IN
    /\ \A i \in 1..Len(b.fields) : b.fields[i].key = Providers[i]
    /\ \A i \in 1..Len(b.data) : b.data[i].key = Providers[i]
    /\ \A j, k \in 1..Len(b.errors) :
         j < k => \E m, n \in 1..3 :
                    /\ m < n
                    /\ b.errors[j].api = Label(impl, m)
                    /\ b.errors[k].api = Label(impl, n)
    /\ \A i \in 1..Len(b.fields) : b.fields[i].val \in {Null} \cup Dtos(Providers[i])
    /\ \A i \in 1..Len(b.data) : b.data[i].val \in {Null} \cup Dtos(Providers[i])

C8_SettleOrderIrrelevant ==
  /\ \A r, q \in Req :
       (pc[r] = "done" /\ pc[q] = "done" /\ SameOutcomes(r, q)) => resp[r] = resp[q]
  /\ \A r \in Req : Returned(r) => InProviderOrder(r)

C8_Witness ==
  /\ Finished("r1") /\ Finished("r2")
  /\ SameOutcomes("r1", "r2")
  /\ order["r1"] = <<"weather", "airQuality", "sunTimes">>
  /\ order["r2"] = <<"sunTimes", "airQuality", "weather">>
  /\ Failed("r1") = {"airQuality"}

\* C9: invocations are independent: a step of one invocation changes nothing
\* of another, and each response carries only what its own request and its
\* own collaborator calls produced.
C9_StepIsLocal ==
  \A r, q \in Req :
    (r # q /\ pc'[r] # pc[r]) =>
      /\ pc'[q] = pc[q] /\ event'[q] = event[q] /\ coord'[q] = coord[q]
      /\ call'[q] = call[q] /\ order'[q] = order[q]
      /\ errors'[q] = errors[q] /\ resp'[q] = resp[q]

C9_OwnResponse ==
  \A r \in Req :
    Returned(r) =>
      /\ MissingTrailName(r) => resp[r].statusCode = 400
      /\ coord[r].status = "failed" => resp[r].statusCode = 500 /\ resp[r].body.errors = <<>>
      /\ coord[r].status = "ok" =>
           /\ Len(resp[r].body.errors) = Cardinality(Failed(r))
           /\ Len(errors[r]) = Cardinality(Failed(r))
           /\ resp[r].statusCode = (IF Failed(r) = {} THEN 200 ELSE 500)
           /\ \A k \in 1..Len(resp[r].body.errors) :
                \E i \in 1..3 :
                  /\ Providers[i] \in Failed(r)
                  /\ resp[r].body.errors[k].api = Label(impl, i)
                  /\ resp[r].body.errors[k].text.msg = call[r][Providers[i]].reason.msg

C9_Independent == []C9_OwnResponse /\ [][C9_StepIsLocal]_vars

C9_Witness ==
  /\ Finished("r1") /\ Finished("r2")
  /\ Failed("r1") = ProviderSet
  /\ Failed("r2") = {}
  /\ resp["r2"].statusCode = 200
  /\ resp["r1"].statusCode = 500

\* C10: when the resolver and every issued provider call settle, the
\* invocation returns one response, with status 200, 400 or 500, and keeps
\* it; while an issued provider call has not settled there is no response,
\* even if the other providers have already failed.
C10_StatusIsHttp == Returned("r1") => resp["r1"].statusCode \in {200, 400, 500}
C10_NoResponseWhilePending ==
  (\E p \in ProviderSet : call["r1"][p].status = "pending") => ~Returned("r1")
C10_ResponseKept == Returned("r1") => resp'["r1"] = resp["r1"]

C10_ReturnsOnceAllSettle ==
  /\ (Invoked("r1") ~> (pc["r1"] = "done" /\ Returned("r1")))
  /\ []C10_StatusIsHttp
  /\ []C10_NoResponseWhilePending
  /\ [][C10_ResponseKept]_vars

C10_Witness ==
  /\ pc["r1"] = "join"
  /\ Cardinality(Failed("r1")) = 2
  /\ \E p \in ProviderSet : call["r1"][p].status = "pending"
  /\ ~Returned("r1")

====
